---- MODULE Spec2Model ----
(***************************************************************************)
(* EntityHighlighter (src/src/components/EntityHighlighter.tsx): a text    *)
(* area whose sub-ranges are tagged as labelled entities.  The model holds *)
(* the component's props (text, entities), its instance fields (captured   *)
(* selection), its React state, the textarea node it reads, and the chunks *)
(* produced by the last render.                                            *)
(*                                                                         *)
(* A text is a sequence of characters; a label is a sequence of UTF-16     *)
(* code units (hashString reads charCodeAt).                               *)
(***************************************************************************)
EXTENDS Integers, Sequences, FiniteSets, TLC

VARIABLES
    text,                  \* props.text
    entities,              \* props.entities
    selectionStart,        \* this.selectionStart
    selectionEnd,          \* this.selectionEnd
    entityLabelInputText,  \* state.entityLabelInputText
    cursorPosition,        \* state.cursorPosition
    inputNode,             \* the textarea: [selectionStart, selectionEnd]; its value is props.text
    textNodes,             \* chunks of the last render (renderHighlights)
    last,                  \* the last handler call: its name, the props it read, what it derived
    events                 \* number of events delivered so far

vars == <<text, entities, selectionStart, selectionEnd, entityLabelInputText,
          cursorPosition, inputNode, textNodes, last, events>>

(***************************************************************************)
(* Bounds of the model.                                                    *)
(***************************************************************************)
MaxLen == 3          \* longest text
MaxEntities == 2     \* longest entity list
MaxInsert == 2       \* longest string typed or pasted by one edit
MaxEvents == 4       \* longest event sequence of the interaction shell

\* No handler looks at a character of the text: the code reads text.length and cuts the
\* text with substring.  The texts the model starts from therefore have pairwise distinct
\* characters, and an edit inserts characters that occur nowhere in them, so that a chunk
\* or a span that lands on the wrong characters is seen to.
Alphabet == <<"a", "b", "c", "d", "e", "f", "g", "h">>
Fresh == <<"x", "y", "z", "w", "v", "u">>

Labels == {<< >>, <<65>>, <<66>>}     \* "", "A", "B"

(***************************************************************************)
(* Helpers: JavaScript array and string primitives the code uses.          *)
(***************************************************************************)
Min(a, b) == IF a < b THEN a ELSE b
Max(a, b) == IF a > b THEN a ELSE b

\* Array.prototype.filter is SelectSeq; Array.prototype.map is a function over 1..Len.

\* Array.prototype.slice(from, to), negative indices counted from the end
slice(seq, from, to) ==
    LET n == Len(seq)
        f == IF from < 0 THEN Max(n + from, 0) ELSE Min(from, n)
        t == IF to < 0 THEN Max(n + to, 0) ELSE Min(to, n)
    IN  IF f >= t THEN << >> ELSE SubSeq(seq, f + 1, t)

\* String.prototype.substring(a, b): both clamped to [0, length], swapped if a > b
substring(str, a, b) ==
    LET n == Len(str)
        ca == Min(Max(a, 0), n)
        cb == Min(Max(b, 0), n)
        lo == Min(ca, cb)
        hi == Max(ca, cb)
    IN  IF lo >= hi THEN << >> ELSE SubSeq(str, lo + 1, hi)

\* the label is not compared
findIndex_anyLabel(seq, entity) ==
    LET matches == {i \in 1..Len(seq) : /\ seq[i].start = entity.start
                                        /\ seq[i].end = entity.end}
    IN  IF matches = {} THEN 0 - 1
        ELSE (CHOOSE i \in matches : \A j \in matches : i <= j) - 1

\* entities.findIndex((e) => e.start === entity.start && e.end === entity.end &&
\* e.label === entity.label): 0-based index of the first match, -1 if none
findIndex(seq, entity) ==
    LET matches == {i \in 1..Len(seq) : /\ seq[i].start = entity.start
                                        /\ seq[i].end = entity.end
                                        /\ seq[i].label = entity.label}
    IN  IF matches = {} THEN 0 - 1
        ELSE (CHOOSE i \in matches : \A j \in matches : i <= j) - 1

\* Array.prototype.sort((a, b) => a - b): ascending numeric order
RECURSIVE Insert(_, _)
Insert(x, sorted) ==
    IF sorted = << >> THEN <<x>>
    ELSE IF x < Head(sorted) THEN <<x>> \o sorted
    ELSE <<Head(sorted)>> \o Insert(x, Tail(sorted))

\* no sort at all: the boundaries stay in the order of the entity list
sort_missing(seq) == seq

RECURSIVE sort(_)
sort(seq) ==
    IF seq = << >> THEN << >> ELSE Insert(seq[Len(seq)], sort(SubSeq(seq, 1, Len(seq) - 1)))

\* entities.map((entity) => [entity.start, entity.end]).flat()
RECURSIVE flatBounds(_)
flatBounds(ents) ==
    IF ents = << >> THEN << >>
    ELSE <<Head(ents).start, Head(ents).end>> \o flatBounds(Tail(ents))

(***************************************************************************)
(* Range, Entity and the classification predicates.                        *)
(***************************************************************************)
Range(start, end) == [start |-> start, end |-> end]

Entity(start, end, label) == [start |-> start, end |-> end, label |-> label]

entityIsInsideRange(entity, range) ==
    \/ (entity.start >= range.start /\ entity.end < range.end)
    \/ (entity.start > range.start /\ entity.end <= range.end)

entityOverlapsWithRange(entity, range) ==
    \/ (entity.start < range.start /\ entity.end > range.start /\ entity.end <= range.end)
    \/ (entity.start >= range.start /\ entity.start < range.end /\ entity.end > range.end)

\* a test that looks at the span's start only
entityIsBeforeRange_startOnly(entity, range) ==
    entity.start < range.start

entityIsBeforeRange(entity, range) ==
    entity.start < range.start /\ entity.end <= range.start

\* a test that forgets where the region ends
entityIsBeyondRange_afterStart(entity, range) ==
    entity.start > range.start

entityIsBeyondRange(entity, range) ==
    entity.start >= range.end /\ entity.start > range.start

rangeIsInsideEntity(entity, range) ==
    entity.start <= range.start /\ entity.end >= range.end

(***************************************************************************)
(* hashString.  A JavaScript number that came out of 32-bit arithmetic is  *)
(* kept as sign and magnitude in two 16-bit limbs, [neg, hi, lo], so that  *)
(* the accumulation wraps as `hash &= hash` makes it wrap and -(-2^31) is  *)
(* the number 2^31.                                                        *)
(***************************************************************************)
Limb == 65536

\* one round of the loop on the 32-bit pattern <<hi, lo>>:
\* hash = (hash << 5) - hash + char; hash &= hash     (= hash * 31 + char mod 2^32)
hashStep(bits, char) ==
    LET l == bits.lo * 31 + char
        h == bits.hi * 31 + (l \div Limb)
    IN  [hi |-> h % Limb, lo |-> l % Limb]

RECURSIVE hashBits(_)
hashBits(str) ==
    IF str = << >> THEN [hi |-> 0, lo |-> 0]
    ELSE hashStep(hashBits(SubSeq(str, 1, Len(str) - 1)), str[Len(str)])

\* the signed value of a 32-bit pattern
toInt32(bits) ==
    IF bits.hi < Limb \div 2
    THEN [neg |-> FALSE, hi |-> bits.hi, lo |-> bits.lo]
    ELSE [neg |-> TRUE,
          hi |-> (Limb - 1 - bits.hi) + (IF bits.lo = 0 THEN 1 ELSE 0),
          lo |-> (Limb - bits.lo) % Limb]

\* the 32-bit accumulation is returned as it is
hashString_noFold(str) ==
    toInt32(hashBits(str))

\* return hash > 0 ? hash : -hash
hashString(str) ==
    LET hash == toInt32(hashBits(str))
    IN  IF ~hash.neg /\ (hash.hi > 0 \/ hash.lo > 0)
        THEN hash
        ELSE [neg |-> FALSE, hi |-> hash.hi, lo |-> hash.lo]

\* JavaScript n % m for m > 0: the sign of the result is the sign of n
Remainder(n, m) ==
    LET r == ((n.hi % m) * (Limb % m) + n.lo) % m
    IN  IF n.neg THEN 0 - r ELSE r

colors == <<"#0074d9", "#001f3f", "#01ff70", "#39cccc", "#3d9970", "#f012be", "#ff4136",
            "#2ecc40", "#ff851b", "#85144b", "#b10dc9", "#ffdc00", "#7fdbff">>

(***************************************************************************)
(* textChange: the range of the old text that an edit replaced, and the    *)
(* entities that survive it.                                               *)
(***************************************************************************)
originalRange(previousSelectionStart, previousSelectionEnd, newSelectionStart, newSelectionEnd, textSizeDiff) ==
    LET previousSelectionSize == previousSelectionEnd - previousSelectionStart
        deletedBeforeCursor ==
            previousSelectionSize = 0 /\ textSizeDiff < 0 /\ newSelectionEnd < previousSelectionEnd
        deletedAfterCursor ==
            previousSelectionSize = 0 /\ textSizeDiff < 0 /\ newSelectionEnd = previousSelectionEnd
    IN  IF deletedAfterCursor \/ deletedBeforeCursor
        THEN Range(newSelectionStart, newSelectionStart - textSizeDiff)
        ELSE Range(previousSelectionStart, previousSelectionEnd)

\* only counted and logged: no entity is removed because it is in this list
brokenEntities(ents, range) ==
    SelectSeq(ents, LAMBDA entity :
        entityOverlapsWithRange(entity, range) \/ entityIsInsideRange(entity, range))

unchangedEntities(ents, range) ==
    SelectSeq(ents, LAMBDA entity : entityIsBeforeRange(entity, range))

\* a resize that forgets to move the end
modifiedEntities_endKept(ents, range, textSizeDiff) ==
    SelectSeq(ents, LAMBDA entity : rangeIsInsideEntity(entity, range))

modifiedEntities(ents, range, textSizeDiff) ==
    LET inside == SelectSeq(ents, LAMBDA entity : rangeIsInsideEntity(entity, range))
    IN  [i \in 1..Len(inside) |-> [inside[i] EXCEPT !.end = inside[i].end + textSizeDiff]]

\* a shift that moves the start and forgets the end
shiftedEntities_startOnly(ents, range, textSizeDiff) ==
    LET beyond == SelectSeq(ents, LAMBDA entity : entityIsBeyondRange(entity, range))
    IN  [i \in 1..Len(beyond) |-> [beyond[i] EXCEPT !.start = beyond[i].start + textSizeDiff]]

shiftedEntities(ents, range, textSizeDiff) ==
    LET beyond == SelectSeq(ents, LAMBDA entity : entityIsBeyondRange(entity, range))
    IN  [i \in 1..Len(beyond) |-> [beyond[i] EXCEPT !.start = beyond[i].start + textSizeDiff,
                                                     !.end = beyond[i].end + textSizeDiff]]

\* the concatenation without the final filter of empty spans
newEntities_keepEmpty(ents, range, textSizeDiff) ==
    unchangedEntities(ents, range) \o modifiedEntities(ents, range, textSizeDiff)
        \o shiftedEntities(ents, range, textSizeDiff)

newEntities(ents, range, textSizeDiff) ==
    SelectSeq(unchangedEntities(ents, range) \o modifiedEntities(ents, range, textSizeDiff)
               \o shiftedEntities(ents, range, textSizeDiff),
           LAMBDA entity : entity.end > entity.start)

(***************************************************************************)
(* Rendering: the text is cut at every entity boundary.                    *)
(***************************************************************************)
TextNode(str, color) == [text |-> str, color |-> color]

\* the recursion without its last step: the pair that ends at text.length is lost
getRangesRec_lastLost(bounds, accumulator) ==
    SelectSeq([i \in 1..(Len(bounds) - 2) |-> Range(bounds[i], bounds[i + 1])],
           LAMBDA range : range.end > range.start)

RECURSIVE getRangesRec(_, _)
getRangesRec(bounds, accumulator) ==
    IF Len(bounds) = 2
    THEN SelectSeq(accumulator \o <<Range(bounds[1], bounds[2])>>,
                LAMBDA range : range.end > range.start)
    ELSE getRangesRec(Tail(bounds), accumulator \o <<Range(bounds[1], bounds[2])>>)

getRanges(bounds) == getRangesRec(bounds, << >>)

\* a containment test that is strict at the start
rangeBelongsToEntities_strict(ents, range) ==
    SelectSeq(ents, LAMBDA entity : entity.start < range.start /\ entity.end >= range.end)

rangeBelongsToEntities(ents, range) ==
    SelectSeq(ents, LAMBDA entity : rangeIsInsideEntity(entity, range))

mixColorsMock == "#00ff00"

\* colors[index].bg: an index outside the palette reads undefined, and .bg of it throws
paletteEntry(index) ==
    IF index \in 0..(Len(colors) - 1) THEN colors[index + 1] ELSE "TypeError"

\* a span always gets the colour of its label, other covering spans or not
getTextNodeColor_first(entitiesInRange) ==
    IF Len(entitiesInRange) = 0 THEN ""
    ELSE paletteEntry(Remainder(hashString(entitiesInRange[1].label), Len(colors)))

getTextNodeColor(entitiesInRange) ==
    IF Len(entitiesInRange) = 0 THEN ""
    ELSE IF Len(entitiesInRange) = 1
    THEN paletteEntry(Remainder(hashString(entitiesInRange[1].label), Len(colors)))
    ELSE mixColorsMock

\* const ranges = this.getRanges([0, ...bounds, text.length])
textRanges(str, ents) ==
    getRanges(<<0>> \o sort(flatBounds(ents)) \o <<Len(str)>>)

getTextNodes(str, ents) ==
    LET ranges == textRanges(str, ents)
    IN  [i \in 1..Len(ranges) |->
            TextNode(substring(str, ranges[i].start, ranges[i].end),
                     getTextNodeColor(rangeBelongsToEntities(ents, ranges[i])))]

findEntities(positionInText) ==
    SelectSeq(entities, LAMBDA e : e.start <= positionInText /\ e.end > positionInText)

(***************************************************************************)
(* Input domains.                                                          *)
(***************************************************************************)
SeqsUpTo(S, n) == UNION {[1..k -> S] : k \in 0..n}

Texts == {SubSeq(Alphabet, 1, n) : n \in 0..MaxLen}

InsertStrings == {SubSeq(Fresh, 1, k) : k \in 0..MaxInsert}

\* the spans of the data model over a text of length n: 0 <= start < end <= n
Spans(n, labels) ==
    {Entity(p[1], p[2], l) : p \in {q \in (0..n) \X (0..n) : q[1] < q[2]}, l \in labels}

\* Lists of spans of the data model whose labels differ ("A", "B", ...) by position:
\* textChange copies labels and never reads them, so the label of an output span tells
\* which input span it comes from.
Tag == <<<<65>>, <<66>>, <<67>>, <<68>>, <<69>>>>

TaggedLists(n, m) ==
    LET pairs == {q \in (0..n) \X (0..n) : q[1] < q[2]}
    IN  UNION {{[i \in 1..k |-> Entity(ps[i][1], ps[i][2], Tag[i])] : ps \in [1..k -> pairs]} :
               k \in 0..m}

\* any start and end around the texts of the model, ordered or not
AnySpans(labels) ==
    {Entity(s, e, l) : s \in (0 - 1)..(MaxLen + 1), e \in (0 - 1)..(MaxLen + 1), l \in labels}

\* a selection of a textarea holding n characters
Node(start, end) == [selectionStart |-> start, selectionEnd |-> end]

Selections(n) == {Node(p[1], p[2]) : p \in {q \in (0..n) \X (0..n) : q[1] <= q[2]}}

ValidEntity(e, n) == 0 <= e.start /\ e.start < e.end /\ e.end <= n

ValidEntities(ents, n) == \A i \in 1..Len(ents) : ValidEntity(ents[i], n)

NoCall ==
    [op |-> "none", text |-> << >>, entities |-> << >>, range |-> Range(0, 0), diff |-> 0,
     replaced |-> Range(0, 0), inserted |-> << >>, entity |-> Entity(0, 0, << >>)]

(***************************************************************************)
(* Handlers.  Each action is one callback run to completion, followed by   *)
(* the render React performs before the next event.                        *)
(***************************************************************************)
\* render(): renderHighlights() computes the chunks from the props
Rendered == textNodes' = getTextNodes(text', entities')

\* onChange(text, entities): the host stores both and passes them back as props
onChange(newText, newEnts) == text' = newText /\ entities' = newEnts

\* The user moves the caret or extends the selection inside the textarea.  The node's
\* selection changes at once; the component learns of it only through a watched event.
UserSelect ==
    /\ events < MaxEvents
    /\ \E sel \in Selections(Len(text)) :
           /\ sel # inputNode
           /\ inputNode' = sel
    /\ events' = events + 1
    /\ UNCHANGED <<text, entities, selectionStart, selectionEnd, entityLabelInputText,
                   cursorPosition, textNodes, last>>

\* select / click / keyup reaches the document listener with the textarea as target
selectionChangeHandler ==
    /\ events < MaxEvents
    /\ selectionStart' = inputNode.selectionStart
    /\ selectionEnd' = inputNode.selectionEnd
    /\ cursorPosition' = inputNode.selectionStart
    /\ last' = [NoCall EXCEPT !.op = "selectionChange", !.text = text, !.entities = entities]
    /\ events' = events + 1
    /\ UNCHANGED <<text, entities, entityLabelInputText, inputNode>>
    /\ Rendered

\* What an edit of the textarea does to its value and its selection: the selection is
\* replaced by a typed or pasted string (or cut), or one character is removed next to
\* the caret.  [value, sel, replaced, inserted]
Edits ==
    LET a == inputNode.selectionStart
        b == inputNode.selectionEnd
        n == Len(text)
        replace == {[value |-> substring(text, 0, a) \o w \o substring(text, b, n),
                     sel |-> Node(a + Len(w), a + Len(w)),
                     replaced |-> Range(a, b),
                     inserted |-> w] : w \in {x \in InsertStrings : x # << >> \/ a < b}}
        backspace == IF a = b /\ a > 0
                     THEN {[value |-> substring(text, 0, a - 1) \o substring(text, a, n),
                            sel |-> Node(a - 1, a - 1),
                            replaced |-> Range(a - 1, a),
                            inserted |-> << >>]}
                     ELSE {}
        delete == IF a = b /\ a < n
                  THEN {[value |-> substring(text, 0, a) \o substring(text, a + 1, n),
                         sel |-> Node(a, a),
                         replaced |-> Range(a, a + 1),
                         inserted |-> << >>]}
                  ELSE {}
    IN  replace \cup backspace \cup delete

\* the textarea's change event: the node already holds the new value and selection
textChange ==
    /\ events < MaxEvents
    /\ \E ed \in Edits :
        LET newText == ed.value
            oldText == text
            previousSelectionEnd == selectionEnd
            previousSelectionStart == selectionStart
            newSelectionStart == ed.sel.selectionStart
            newSelectionEnd == ed.sel.selectionEnd
            textSizeDiff == Len(newText) - Len(oldText)
            range == originalRange(previousSelectionStart, previousSelectionEnd,
                                   newSelectionStart, newSelectionEnd, textSizeDiff)
        IN  /\ inputNode' = ed.sel
            /\ onChange(newText, newEntities(entities, range, textSizeDiff))
            /\ last' = [NoCall EXCEPT !.op = "textChange", !.text = oldText,
                                      !.entities = entities, !.range = range,
                                      !.diff = textSizeDiff, !.replaced = ed.replaced,
                                      !.inserted = ed.inserted]
            /\ events' = events + 1
            /\ UNCHANGED <<selectionStart, selectionEnd, entityLabelInputText, cursorPosition>>
            /\ Rendered

entityAddControlsDisabled == selectionStart = selectionEnd

nothingIsSelected == selectionStart = selectionEnd

\* the label input is disabled while nothing is selected
entityLabelChanged ==
    /\ events < MaxEvents
    /\ ~entityAddControlsDisabled
    /\ \E value \in Labels :
           /\ value # entityLabelInputText
           /\ entityLabelInputText' = value
    /\ last' = [NoCall EXCEPT !.op = "entityLabelChanged", !.text = text, !.entities = entities]
    /\ events' = events + 1
    /\ UNCHANGED <<text, entities, selectionStart, selectionEnd, cursorPosition, inputNode>>
    /\ Rendered

\* the new span is put in front of the list
addEntity_first ==
    /\ events < MaxEvents
    /\ ~entityAddControlsDisabled
    /\ LET newEntity == Entity(selectionStart, selectionEnd, entityLabelInputText)
       IN  /\ onChange(text, <<newEntity>> \o entities)
           /\ last' = [NoCall EXCEPT !.op = "addEntity", !.text = text,
                                     !.entities = entities, !.entity = newEntity]
    /\ events' = events + 1
    /\ UNCHANGED <<selectionStart, selectionEnd, entityLabelInputText, cursorPosition, inputNode>>
    /\ Rendered

\* the button is disabled while nothing is selected
addEntity ==
    /\ events < MaxEvents
    /\ ~entityAddControlsDisabled
    /\ LET newEntity == Entity(selectionStart, selectionEnd, entityLabelInputText)
       IN  /\ onChange(text, entities \o <<newEntity>>)
           /\ last' = [NoCall EXCEPT !.op = "addEntity", !.text = text,
                                     !.entities = entities, !.entity = newEntity]
    /\ events' = events + 1
    /\ UNCHANGED <<selectionStart, selectionEnd, entityLabelInputText, cursorPosition, inputNode>>
    /\ Rendered

deleteEntity(entity) ==
    /\ events < MaxEvents
    /\ LET deleted == findIndex(entities, entity)
       IN  onChange(text, slice(entities, 0, deleted) \o slice(entities, deleted + 1, Len(entities)))
    /\ last' = [NoCall EXCEPT !.op = "deleteEntity", !.text = text,
                              !.entities = entities, !.entity = entity]
    /\ events' = events + 1
    /\ UNCHANGED <<selectionStart, selectionEnd, entityLabelInputText, cursorPosition, inputNode>>
    /\ Rendered

\* renderEntitiesUnderCursor: one delete button per entity under the caret
deleteClicked ==
    /\ nothingIsSelected
    /\ \E i \in 1..Len(findEntities(cursorPosition)) : deleteEntity(findEntities(cursorPosition)[i])

(***************************************************************************)
(* Specifications.                                                         *)
(***************************************************************************)
\* fields and state as the class initialisers leave them, the first render done
Mounted ==
    /\ entityLabelInputText = << >>
    /\ cursorPosition = selectionStart
    /\ textNodes = getTextNodes(text, entities)
    /\ last = NoCall
    /\ events = 0

\* The interaction shell: the component is mounted on some text with some entities and
\* then receives events, in any order the host can deliver them.  componentDidMount
\* focuses the textarea, which puts the caret at one end of the text without any of
\* the watched events.
Init ==
    /\ text \in Texts
    /\ entities \in SeqsUpTo(Spans(Len(text), {<<65>>}), 1)
    /\ selectionStart = 0
    /\ selectionEnd = 0
    /\ inputNode \in {Node(0, 0), Node(Len(text), Len(text))}
    /\ Mounted

Next ==
    \/ UserSelect
    \/ selectionChangeHandler
    \/ textChange
    \/ entityLabelChanged
    \/ addEntity
    \/ deleteClicked

Spec == Init /\ [][Next]_vars

\* One text-change event, in any situation the component can be in: any text, any entities
\* of the data model, any captured selection (it may be stale), any selection in the node.
InitTextChange ==
    /\ text \in Texts
    /\ entities \in TaggedLists(Len(text), MaxEntities)
    /\ \E sel \in Selections(MaxLen) :
           selectionStart = sel.selectionStart /\ selectionEnd = sel.selectionEnd
    /\ inputNode \in Selections(Len(text))
    /\ Mounted

NextTextChange == last.op = "none" /\ textChange

SpecTextChange == InitTextChange /\ [][NextTextChange]_vars

\* One call of deleteEntity with any span value, on any text and any entities of the
\* data model.
InitDeleteEntity ==
    /\ text \in Texts
    /\ entities \in SeqsUpTo(Spans(Len(text), {<< >>, <<65>>}), MaxEntities)
    /\ selectionStart = 0
    /\ selectionEnd = 0
    /\ inputNode = Node(0, 0)
    /\ Mounted

NextDeleteEntity ==
    /\ last.op = "none"
    /\ \E entity \in Spans(Len(text), {<< >>, <<65>>}) : deleteEntity(entity)

SpecDeleteEntity == InitDeleteEntity /\ [][NextDeleteEntity]_vars

\* One render of any text with any list of spans, well-formed or not: the component is
\* constructed and render() has not run yet.
InitRender ==
    /\ text \in Texts
    /\ entities \in SeqsUpTo(AnySpans({<<65>>}), MaxEntities)
    /\ selectionStart = 0
    /\ selectionEnd = 0
    /\ inputNode = Node(0, 0)
    /\ entityLabelInputText = << >>
    /\ cursorPosition = 0
    /\ textNodes = << >>
    /\ last = NoCall
    /\ events = 0

render ==
    /\ last.op = "none"
    /\ textNodes' = getTextNodes(text, entities)
    /\ last' = [NoCall EXCEPT !.op = "render", !.text = text, !.entities = entities]
    /\ events' = events + 1
    /\ UNCHANGED <<text, entities, selectionStart, selectionEnd, entityLabelInputText,
                   cursorPosition, inputNode>>

SpecRender == InitRender /\ [][render]_vars

\* One click on the add button with any captured selection (it may be stale, so it is taken
\* from the longest text) and any label typed into the input, on any text and any entities
\* of the data model.
InitAddEntity ==
    /\ text \in Texts
    /\ entities \in SeqsUpTo(Spans(Len(text), {<< >>, <<65>>}), MaxEntities)
    /\ \E sel \in Selections(MaxLen) :
           selectionStart = sel.selectionStart /\ selectionEnd = sel.selectionEnd
    /\ inputNode = Node(0, 0)
    /\ entityLabelInputText \in Labels
    /\ cursorPosition = selectionStart
    /\ textNodes = getTextNodes(text, entities)
    /\ last = NoCall
    /\ events = 0

NextAddEntity == last.op = "none" /\ addEntity

SpecAddEntity == InitAddEntity /\ [][NextAddEntity]_vars

\* One render of any text with any list of spans of the data model, the labels being the
\* empty string, "A", "B" and "BA".
InitColors ==
    /\ text \in Texts
    /\ entities \in SeqsUpTo(Spans(Len(text), Labels \cup {<<66, 65>>}), MaxEntities)
    /\ selectionStart = 0
    /\ selectionEnd = 0
    /\ inputNode = Node(0, 0)
    /\ entityLabelInputText = << >>
    /\ cursorPosition = 0
    /\ textNodes = << >>
    /\ last = NoCall
    /\ events = 0

SpecColors == InitColors /\ [][render]_vars

\* One render of a one-character text under one span whose label is any string of up to
\* MaxLabel characters out of "A", "z" and U+FFFF, or "GydZG_", whose accumulation ends
\* on the bit pattern 0x80000000.
MaxLabel == 5

HashChars == {65, 122, 65535}

MinHashLabel == <<71, 121, 100, 90, 71, 95>>

HashLabels == SeqsUpTo(HashChars, MaxLabel) \cup {MinHashLabel}

InitHash ==
    /\ text = SubSeq(Alphabet, 1, 1)
    /\ \E label \in HashLabels : entities = <<Entity(0, 1, label)>>
    /\ selectionStart = 0
    /\ selectionEnd = 0
    /\ inputNode = Node(0, 0)
    /\ entityLabelInputText = << >>
    /\ cursorPosition = 0
    /\ textNodes = << >>
    /\ last = NoCall
    /\ events = 0

SpecHash == InitHash /\ [][render]_vars

(***************************************************************************)
(* Properties.                                                             *)
(***************************************************************************)
Contains(seq, x) == \E i \in 1..Len(seq) : seq[i] = x

Count(seq, x) == Cardinality({i \in 1..Len(seq) : seq[i] = x})

\* the output spans that come from the input span e (see TaggedLists)
Descendants(e) == SelectSeq(entities, LAMBDA x : x.label = e.label)

\* textChange has just run on well-formed input: the old spans are spans of the old text,
\* the region it derived is the range of the old text the edit replaced, and so lies inside
\* the old text, and the text shrank by no more than the region's length.
WellFormedCall ==
    /\ last.op = "textChange"
    /\ ValidEntities(last.entities, Len(last.text))
    /\ last.range = last.replaced
    /\ 0 <= last.range.start
    /\ last.range.start <= last.range.end
    /\ last.range.end <= Len(last.text)
    /\ last.diff >= 0 - (last.range.end - last.range.start)

\* C1: after a reconcile call (textChange) on well-formed input, every span of the output
\* satisfies 0 <= start < end <= newText.length.
C1_SpanInvariantPreserved ==
    WellFormedCall => ValidEntities(entities, Len(text))

\* C1 witness: a well-formed call has resized one span and shifted another.
C1_Witness ==
    /\ WellFormedCall
    /\ last.diff # 0
    /\ \E i \in 1..Len(last.entities), j \in 1..Len(last.entities) :
           /\ rangeIsInsideEntity(last.entities[i], last.range)
           /\ entityIsBeyondRange(last.entities[j], last.range)
           /\ Descendants(last.entities[i]) # << >>
           /\ Descendants(last.entities[j]) # << >>

\* C2: an insertion exactly at a span's end boundary does not extend the span: a span with
\* start < p and end = p comes out of an insertion at p exactly once and unchanged, with no
\* extended copy beside it.
C2_InsertAtEndNotExtended ==
    (WellFormedCall /\ last.range.start = last.range.end /\ last.diff > 0) =>
        \A i \in 1..Len(last.entities) :
            LET e == last.entities[i]
            IN  (e.start < last.range.start /\ e.end = last.range.start) =>
                    Descendants(e) = <<e>>

C7_PureShift ==
    (last.op = "textChange" /\ ValidEntities(last.entities, Len(last.text))) =>
        \A i \in 1..Len(last.entities) :
            LET e == last.entities[i]
                r == last.range
                k == last.diff
            IN  /\ (r.start = r.end /\ k > 0 /\ e.start > r.start) =>
                       Contains(entities, Entity(e.start + k, e.end + k, e.label))
                /\ (e.end <= r.start) => Contains(entities, e)

\* C7 witness: two characters were inserted between two spans; the first is unchanged and
\* the second two further.
C7_Witness ==
    /\ last.op = "textChange"
    /\ last.range.start = last.range.end
    /\ last.diff = 2
    /\ \E i \in 1..Len(last.entities), j \in 1..Len(last.entities) :
           LET e == last.entities[i]
               f == last.entities[j]
           IN  /\ e.end <= last.range.start
               /\ f.start > last.range.start
               /\ Contains(Descendants(e), e)
               /\ Descendants(f) = <<Entity(f.start + 2, f.end + 2, f.label)>>

\* C3: deleteEntity with a span value that matches no span of the list is a no-op: the
\* callback receives the same list and the same text.
C3_DeleteNoMatchIsNoOp ==
    (last.op = "deleteEntity" /\ ~Contains(last.entities, last.entity)) =>
        (entities = last.entities /\ text = last.text)

\* C4: in every state the shell reaches, every span satisfies
\* 0 <= start < end <= text.length for the current text.
C4_SpansWithinText == ValidEntities(entities, Len(text))

RECURSIVE ConcatTexts(_)
ConcatTexts(nodes) ==
    IF nodes = << >> THEN << >> ELSE Head(nodes).text \o ConcatTexts(Tail(nodes))

\* C8: the texts of the chunks of a render, concatenated in order, are the text, for any
\* text and any list of spans.
C8_ChunksConcatenateToText ==
    last.op = "render" => ConcatTexts(textNodes) = text

\* C8 witness: a render of a non-empty text with two spans that overlap has produced at
\* least three chunks.
C8_Witness ==
    /\ last.op = "render"
    /\ Len(entities) = 2
    /\ ValidEntities(entities, Len(text))
    /\ entities[1].start < entities[2].start
    /\ entities[2].start < entities[1].end
    /\ entities[1].end < entities[2].end
    /\ Len(textNodes) >= 3
    /\ ConcatTexts(textNodes) = text

\* C9: for spans of the data model, the ranges of a render are non-empty and each starts
\* where the one before it ended, from 0 to text.length: they are disjoint, ascending, and
\* partition [0, text.length).
C9_RangesPartitionText ==
    (last.op = "render" /\ ValidEntities(entities, Len(text))) =>
        LET ranges == textRanges(text, entities)
        IN  /\ \A i \in 1..Len(ranges) : ranges[i].end > ranges[i].start
            /\ \A i \in 2..Len(ranges) : ranges[i].start = ranges[i - 1].end
            /\ \A i \in 1..Len(ranges), j \in 1..Len(ranges) :
                   i < j => ranges[i].end <= ranges[j].start
            /\ IF Len(text) = 0 THEN ranges = << >>
               ELSE /\ ranges # << >>
                    /\ ranges[1].start = 0
                    /\ ranges[Len(ranges)].end = Len(text)
            /\ Len(textNodes) = Len(ranges)

\* C9 witness: a render whose second span is listed before the first one it follows in
\* the text, so that the boundaries had to be sorted, has cut the text in three.
C9_Witness ==
    /\ last.op = "render"
    /\ Len(entities) = 2
    /\ ValidEntities(entities, Len(text))
    /\ entities[2].end <= entities[1].start
    /\ Len(textRanges(text, entities)) = 3
    /\ Len(textNodes) = 3

\* C10: every span either contains a range of the render or does not meet it, so the
\* spans that cover the range are the spans under any of its offsets (findEntities).
C10_CoveringSetIsFindEntities ==
    last.op = "render" =>
        LET ranges == textRanges(text, entities)
        IN  \A k \in 1..Len(ranges) :
                /\ \A i \in 1..Len(entities) :
                       \/ (entities[i].start <= ranges[k].start /\ entities[i].end >= ranges[k].end)
                       \/ entities[i].end <= ranges[k].start
                       \/ entities[i].start >= ranges[k].end
                       \/ entities[i].start >= entities[i].end
                /\ \A pos \in ranges[k].start..(ranges[k].end - 1) :
                       rangeBelongsToEntities(entities, ranges[k]) = findEntities(pos)

\* C10 witness: two spans overlap and the range under their common part is covered by
\* both.
C10_Witness ==
    /\ last.op = "render"
    /\ Len(entities) = 2
    /\ ValidEntities(entities, Len(text))
    /\ \E k \in 1..Len(textRanges(text, entities)) :
           LET range == textRanges(text, entities)[k]
           IN  /\ Len(rangeBelongsToEntities(entities, range)) = 2
               /\ entities[1].start < range.start
               /\ entities[2].end > range.end
               /\ Len(findEntities(range.start)) = 2

C12_AddAppendsSelection ==
    (last.op = "addEntity") =>
        /\ text = last.text
        /\ Len(entities) = Len(last.entities) + 1
        /\ \A i \in 1..Len(last.entities) : entities[i] = last.entities[i]
        /\ entities[Len(entities)] =
               [start |-> selectionStart, end |-> selectionEnd, label |-> entityLabelInputText]

\* a span with the empty label is added a second time, after a span it overlaps
C12_Witness ==
    /\ last.op = "addEntity"
    /\ Len(entities) = 3
    /\ entities[3].label = << >>
    /\ entities[2] = entities[3]
    /\ entities[1] # entities[3]
    /\ entities[1].start < entities[3].end
    /\ entities[3].start < entities[1].end

\* hash = hash * 31 + charCode over the characters of a label, without wrapping (the
\* labels it is applied to are short)
RECURSIVE PlainHash(_)
PlainHash(label) ==
    IF label = << >> THEN 0
    ELSE PlainHash(SubSeq(label, 1, Len(label) - 1)) * 31 + label[Len(label)]

\* the spans that cover the k-th chunk, the chunk's offsets being counted from the chunks
\* before it
Covering(k) ==
    LET from == Len(ConcatTexts(SubSeq(textNodes, 1, k - 1)))
        to   == from + Len(textNodes[k].text)
    IN  SelectSeq(last.entities, LAMBDA e : e.start <= from /\ e.end >= to)

\* C13: the colour of every chunk depends on its covering spans only: no colour when no
\* span covers it, the palette entry at index hash(label) mod 13 when exactly one span
\* covers it, and '#00ff00' when two or more spans cover it, whatever their labels.
C13_ColourOfCoveringSet ==
    (last.op = "render") =>
        \A k \in 1..Len(textNodes) :
            LET covering == Covering(k)
            IN  /\ Len(covering) = 0 => textNodes[k].color = ""
                /\ Len(covering) = 1 =>
                       textNodes[k].color = colors[(PlainHash(covering[1].label) % 13) + 1]
                /\ Len(covering) >= 2 => textNodes[k].color = "#00ff00"

\* one render shows a chunk under a single span labelled "BA", a chunk under two spans of
\* that same label, and a chunk under no span
C13_Witness ==
    /\ last.op = "render"
    /\ \E i, j, k \in 1..Len(textNodes) :
           /\ Len(Covering(i)) = 0 /\ textNodes[i].color = ""
           /\ Len(Covering(j)) = 1 /\ Covering(j)[1].label = <<66, 65>>
           /\ textNodes[j].color = "#f012be"
           /\ Len(Covering(k)) = 2 /\ Covering(k)[1].label = Covering(k)[2].label
           /\ textNodes[k].color = "#00ff00"

\* C14: at every text-change event, in every order of text-change and selection-update
\* events, the change region textChange computes is the range of the old text that the
\* edit replaced.
C14_RegionIsReplacedRange ==
    (last.op = "textChange") => (last.range = last.replaced)

\* C15: surviving spans stay attached to their characters.  After an edit that replaced
\* the region r of the old text by an inserted string, every output span that comes from
\* an input span e covers, in the new text, the characters e covered in the old text when
\* e lies before or beyond r, and the characters of e before r, the inserted string and the
\* characters of e after r when r lies inside e.
C15_SpansStayAttached ==
    WellFormedCall =>
        \A i \in 1..Len(last.entities) :
            LET e == last.entities[i]
                r == last.range
                old == substring(last.text, e.start, e.end)
            IN  \A j \in 1..Len(Descendants(e)) :
                    LET x == Descendants(e)[j]
                        new == substring(text, x.start, x.end)
                    IN  \/ e.end <= r.start /\ new = old
                        \/ e.start >= r.end /\ new = old
                        \/ /\ e.start <= r.start
                           /\ e.end >= r.end
                           /\ new = substring(last.text, e.start, r.start)
                                        \o last.inserted
                                        \o substring(last.text, r.end, e.end)

\* one character between two others is replaced by two: the span around it now covers
\* its old first character, the two new ones and its old last character, and the span
\* behind the region has moved with its character
C15_Witness ==
    /\ WellFormedCall
    /\ last.range.end = last.range.start + 1
    /\ Len(last.inserted) = 2
    /\ Len(last.entities) = 2
    /\ LET e == last.entities[1]
           f == last.entities[2]
       IN  /\ e.start < last.range.start /\ e.end > last.range.end
           /\ Len(Descendants(e)) = 1
           /\ substring(text, Descendants(e)[1].start, Descendants(e)[1].end)
                  = <<last.text[e.start + 1]>> \o last.inserted
                        \o substring(last.text, last.range.end, e.end)
           /\ f.start >= last.range.end
           /\ Len(Descendants(f)) = 1
           /\ Descendants(f)[1] # f
           /\ substring(text, Descendants(f)[1].start, Descendants(f)[1].end)
                  = substring(last.text, f.start, f.end)

\* C16: for every label, the empty one and those whose 32-bit accumulation wraps to a
\* negative value or to -2^31 included, hashString returns a non-negative number, so
\* hashString(label) mod 13 lies in 0..12 and the chunk under the span gets a colour of
\* the palette.
C16_HashNonNegative ==
    (last.op = "render") =>
        LET hash == hashString(last.entities[1].label)
        IN  /\ ~hash.neg
            /\ Remainder(hash, 13) \in 0..12
            /\ \E k \in 1..13 : textNodes[1].color = colors[k]

\* the label "GydZG_" accumulates to -2^31; hashString returns 2^31, and 2^31 mod 13 = 11
\* selects '#ffdc00'
C16_Witness ==
    /\ last.op = "render"
    /\ toInt32(hashBits(last.entities[1].label)) = [neg |-> TRUE, hi |-> 32768, lo |-> 0]
    /\ hashString(last.entities[1].label) = [neg |-> FALSE, hi |-> 32768, lo |-> 0]
    /\ textNodes[1].color = "#ffdc00"

====
